---------------------------- MODULE Spec2Model ----------------------------
(***************************************************************************)
(* The submission-to-assessment workflow of the team11 exam microservice   *)
(* (src/team11/views.py): the two intake handlers submit_writing and       *)
(* submit_listening, the store they write (Submission, WritingSubmission,  *)
(* ListeningSubmission, AssessmentResult) and the two read views dashboard *)
(* and submission_detail.                                                  *)
(*                                                                         *)
(* Each request is handled by its own thread; the store runs in autocommit *)
(* mode (the handlers open no transaction), so every ORM statement         *)
(* (objects.create, save, a query) is one atomic step and the statements   *)
(* of concurrent requests interleave freely.  A handler's local            *)
(* computation is part of the step of the ORM statement that follows it.   *)
(***************************************************************************)
EXTENDS Integers, Sequences, FiniteSets, TLC

(***************************************************************************)
(* Bounds of the model.                                                    *)
(***************************************************************************)
MaxReq == 2      \* number of submit requests (they may run concurrently)
MaxLen == 3      \* longest enumerated text_body, in characters

(***************************************************************************)
(* Python values.  None and optional values; a JSON value of the request   *)
(* body is a string (a sequence of characters) or a number.                *)
(***************************************************************************)
None == <<>>
Some(x) == <<x>>
Val(o) == o[1]

Str(s) == [t |-> "str", s |-> s, n |-> 0]
Num(n) == [t |-> "num", s |-> <<>>, n |-> n]

\* mutant: the check "text_body is not None" in place of "not text_body"
TruthyNotNone(v) == TRUE

\* Python truthiness of a JSON value: '' and 0 are falsy.
Truthy(v) == IF v.t = "str" THEN Len(v.s) > 0 ELSE v.n # 0

\* dict.get(key, default)
Get(d, k, default) == IF k \in DOMAIN d THEN d[k] ELSE default

(***************************************************************************)
(* str.split() without arguments: tokens are the maximal runs of           *)
(* non-whitespace characters, found by one scan from the left.             *)
(***************************************************************************)
Whitespace == {" ", "\t", "\n", "\r"}

IsSpace(c) == c \in Whitespace

RECURSIVE TokenEnd(_, _)
\* first position at or after i that ends the token starting at i
TokenEnd(s, i) ==
    IF i > Len(s) \/ IsSpace(s[i]) THEN i ELSE TokenEnd(s, i + 1)

RECURSIVE SplitFrom(_, _)
SplitFrom(s, i) ==
    IF i > Len(s) THEN <<>>
    ELSE IF IsSpace(s[i]) THEN SplitFrom(s, i + 1)
    ELSE LET j == TokenEnd(s, i)
         IN  <<SubSeq(s, i, j - 1)>> \o SplitFrom(s, j)

\* mutant: str.split(' '), which cuts at every single space
RECURSIVE SplitSpaceFrom(_, _, _)
SplitSpaceFrom(s, i, cur) ==
    IF i > Len(s) THEN <<cur>>
    ELSE IF s[i] = " " THEN <<cur>> \o SplitSpaceFrom(s, i + 1, <<>>)
    ELSE SplitSpaceFrom(s, i + 1, Append(cur, s[i]))

split_space(s) == SplitSpaceFrom(s, 1, <<>>)

split(s) == SplitFrom(s, 1)

\* word_count = len(text_body.split())
word_count(text_body) == Len(split(text_body.s))

(***************************************************************************)
(* Enumerations of models.py as the handlers use them.                     *)
(***************************************************************************)
WRITING == "WRITING"
LISTENING == "LISTENING"
PENDING == "PENDING"
IN_PROGRESS == "IN_PROGRESS"
COMPLETED == "COMPLETED"
FAILED == "FAILED"

(***************************************************************************)
(* Inputs: the authenticated users, and the request bodies clients send.   *)
(* A body either fails json.loads or is a JSON object (a dict).            *)
(***************************************************************************)
Users == {"alice", "bob"}

Alphabet == {"a", " ", "\t"}

RECURSIVE TextsOfLen(_)
TextsOfLen(n) ==
    IF n = 0 THEN {<<>>}
    ELSE {Append(s, c) : s \in TextsOfLen(n - 1), c \in Alphabet}

\* every text of 1..MaxLen characters, and the text "a b  c"
Texts == UNION {TextsOfLen(n) : n \in 1..MaxLen}
           \cup {<<"a", " ", "b", " ", " ", "c">>}

Topic == Str(<<"T">>)

NotJson == [parses |-> FALSE, data |-> <<>>]
Json(d) == [parses |-> TRUE, data |-> d]

WritingBody(text) == Json([topic |-> Topic, text_body |-> Str(text)])

\* bodies of POST /submit/writing: malformed, no text_body, empty text_body,
\* a text_body that is no string, and well-formed ones
WritingBodies ==
    { NotJson,
      Json([topic |-> Topic]),
      Json([topic |-> Topic, text_body |-> Str(<<>>)]),
      Json([topic |-> Topic, text_body |-> Num(5)]),
      WritingBody(<<"a", " ", "b", " ", " ", "c">>),
      Json([text_body |-> Str(<<"a">>)]) }

WordCountBodies == {WritingBody(t) : t \in Texts}

\* An audio_url is a sequence of path segments; "http://", "https://", "/" and
\* ":\\" are the prefixes the handler looks for.
RelativeUrl == Str(<<"a.wav">>)
AbsoluteUrl == Str(<<"/", "a.wav">>)
DriveUrl == Str(<<"C", ":\\", "a.wav">>)
RemoteUrl == Str(<<"https://", "h", "/", "a.wav">>)

ListeningBodies ==
    { NotJson,
      Json([topic |-> Topic, duration_seconds |-> Num(30)]),
      Json([topic |-> Topic, audio_url |-> Str(<<>>), duration_seconds |-> Num(30)]),
      Json([topic |-> Topic, audio_url |-> Num(5), duration_seconds |-> Num(30)]),
      Json([topic |-> Topic, audio_url |-> RelativeUrl, duration_seconds |-> Num(30)]),
      Json([audio_url |-> AbsoluteUrl]),
      Json([topic |-> Topic, audio_url |-> DriveUrl, duration_seconds |-> Num(30)]),
      Json([topic |-> Topic, audio_url |-> RemoteUrl, duration_seconds |-> Num(30)]) }


(***************************************************************************)
(* The assessment collaborator (services.assess_writing, assess_speaking)  *)
(* is external to the handlers: a call either raises or returns a dict,    *)
(* which the handlers read with ['key'] (KeyError when absent) or .get().  *)
(***************************************************************************)
Without(d, k) == [x \in DOMAIN d \ {k} |-> d[x]]

WritingSuccess ==
    [success |-> TRUE, overall_score |-> 7, grammar_score |-> 6,
     vocabulary_score |-> 8, coherence_score |-> 9, fluency_score |-> 5,
     feedback_summary |-> "clear", suggestions |-> <<"s1", "s2">>]

SpeakingSuccess ==
    [success |-> TRUE, overall_score |-> 6, pronunciation_score |-> 4,
     fluency_score |-> 5, vocabulary_score |-> 7, grammar_score |-> 8,
     coherence_score |-> 9, feedback_summary |-> "fluent",
     suggestions |-> <<"s3">>, transcription |-> "hello"]

AssessFailure == [success |-> FALSE, error |-> "model unavailable"]

\* a call returns a dict or raises
Returns(result) == [raised |-> FALSE, result |-> result]
Raises == [raised |-> TRUE, result |-> <<>>]

\* what assess_writing may do
WritingOutcomes ==
    { Raises,
      Returns(WritingSuccess),
      Returns(Without(WritingSuccess, "overall_score")),
      Returns(Without(WritingSuccess, "suggestions")),
      Returns(AssessFailure),
      Returns(Without(AssessFailure, "error")),
      Returns(Without(AssessFailure, "success")) }

\* what assess_speaking may do
SpeakingOutcomes ==
    { Raises,
      Returns(SpeakingSuccess),
      Returns(Without(SpeakingSuccess, "transcription")),
      Returns(Without(SpeakingSuccess, "overall_score")),
      Returns(Without(SpeakingSuccess, "pronunciation_score")),
      Returns(AssessFailure),
      Returns(Without(AssessFailure, "error")),
      Returns(Without(AssessFailure, "success")) }

\* the first key of keys (in evaluation order) that d lacks, as KeyError names it
RECURSIVE FirstMissing(_, _)
FirstMissing(d, keys) ==
    IF keys = <<>> THEN None
    ELSE IF Head(keys) \notin DOMAIN d THEN Some(Head(keys))
    ELSE FirstMissing(d, Tail(keys))

(***************************************************************************)
(* State.  The four tables are sequences of rows (a row's position is its  *)
(* primary key; submission_id, an opaque uuid in the code, is that         *)
(* position).  req[r] is the thread handling submit request r: its         *)
(* position in the handler and the handler's local variables.  calls is    *)
(* the log of collaborator calls, view the response of the read view       *)
(* served in the last step (None when the last step was no read).          *)
(***************************************************************************)
VARIABLES Submission, WritingSubmission, ListeningSubmission,
          AssessmentResult, req, calls, view

store == <<Submission, WritingSubmission, ListeningSubmission, AssessmentResult>>
vars == <<Submission, WritingSubmission, ListeningSubmission,
          AssessmentResult, req, calls, view>>

Requests == 1..MaxReq

Idle ==
    [pc |-> "start", handler |-> "", user |-> "", body |-> NotJson,
     submission |-> None, listening_detail |-> None,
     assessment_result |-> None, response |-> None]

Init ==
    /\ Submission = <<>>
    /\ WritingSubmission = <<>>
    /\ ListeningSubmission = <<>>
    /\ AssessmentResult = <<>>
    /\ req = [r \in Requests |-> Idle]
    /\ calls = <<>>
    /\ view = None

\* JsonResponse(json, status=status)
JsonResponse(json, status) == [status |-> status, json |-> json]

\* the except clause of both handlers: JsonResponse({'error': str(e)}, status=500)
ExceptionResponse(e) == JsonResponse([error |-> e], 500)

\* the handler of request r returns resp
Return(r, resp) == [req[r] EXCEPT !.pc = "done", !.response = Some(resp)]

\* requests are numbered in their order of arrival
Arrives(r) ==
    /\ req[r].pc = "start"
    /\ IF r = 1 THEN TRUE ELSE req[r - 1].pc # "start"

\* Model.save(): one UPDATE writing every field of the in-memory instance
Save(table, pk, instance) == [table EXCEPT ![pk] = instance]

(***************************************************************************)
(* submit_writing                                                          *)
(***************************************************************************)
\* mutant: the Submission is created in status PENDING
SubmissionCreatePending(user, type) ==
    [submission_id |-> Len(Submission) + 1, user_id |-> user,
     submission_type |-> type, status |-> PENDING, overall_score |-> None]

\* lines 101-116: parse and validate the body, count the words, create the
\* Submission
SubmissionCreate(user, type) ==
    [submission_id |-> Len(Submission) + 1, user_id |-> user,
     submission_type |-> type, status |-> IN_PROGRESS, overall_score |-> None]

submit_writing_intake(r, user, body) ==
    /\ Arrives(r)
    /\ LET me == [req[r] EXCEPT !.handler = "submit_writing", !.user = user,
                                !.body = body]
           text_body == Get(body.data, "text_body", Str(<<>>))
       IN  IF ~body.parses
           THEN /\ req' = [req EXCEPT ![r] = [me EXCEPT !.pc = "done",
                              !.response = Some(ExceptionResponse("JSONDecodeError"))]]
                /\ UNCHANGED Submission
           ELSE IF ~Truthy(text_body)
           THEN /\ req' = [req EXCEPT ![r] = [me EXCEPT !.pc = "done",
                              !.response = Some(JsonResponse(
                                  [error |-> "Text body is required"], 400))]]
                /\ UNCHANGED Submission
           ELSE IF text_body.t # "str"
           THEN \* text_body.split() on a value that is no string
                /\ req' = [req EXCEPT ![r] = [me EXCEPT !.pc = "done",
                              !.response = Some(ExceptionResponse("AttributeError: split"))]]
                /\ UNCHANGED Submission
           ELSE LET submission == SubmissionCreate(user, WRITING)
                IN  /\ Submission' = Append(Submission, submission)
                    /\ req' = [req EXCEPT ![r] = [me EXCEPT !.pc = "detail",
                                  !.submission = Some(submission)]]
    /\ view' = None
    /\ UNCHANGED <<WritingSubmission, ListeningSubmission, AssessmentResult, calls>>

\* mutant: the detail row is attached to the newest Submission of the table
WritingSubmissionCreateLatest(submission, topic, text_body, wc) ==
    [submission |-> Len(Submission), topic |-> topic,
     text_body |-> text_body, word_count |-> wc]

\* lines 119-124: WritingSubmission.objects.create
WritingSubmissionCreate(submission, topic, text_body, wc) ==
    [submission |-> submission.submission_id, topic |-> topic,
     text_body |-> text_body, word_count |-> wc]

submit_writing_detail(r) ==
    /\ req[r].handler = "submit_writing"
    /\ req[r].pc = "detail"
    /\ LET data == req[r].body.data
           topic == Get(data, "topic", Str(<<>>))
           text_body == Get(data, "text_body", Str(<<>>))
       IN  WritingSubmission' = Append(WritingSubmission,
               WritingSubmissionCreate(Val(req[r].submission), topic, text_body,
                                       word_count(text_body)))
    /\ req' = [req EXCEPT ![r].pc = "assess"]
    /\ view' = None
    /\ UNCHANGED <<Submission, ListeningSubmission, AssessmentResult, calls>>

\* line 129: assess_writing(topic, text_body, word_count) returns or raises
submit_writing_assess(r, outcome) ==
    /\ req[r].handler = "submit_writing"
    /\ req[r].pc = "assess"
    /\ LET data == req[r].body.data
           topic == Get(data, "topic", Str(<<>>))
           text_body == Get(data, "text_body", Str(<<>>))
       IN  calls' = Append(calls, [fn |-> "assess_writing", by |-> r,
                                   args |-> <<topic, text_body, word_count(text_body)>>])
    /\ IF outcome.raised
       THEN req' = [req EXCEPT ![r] = Return(r, ExceptionResponse("assess_writing raised"))]
       ELSE req' = [req EXCEPT ![r].pc = "dispatch",
                               ![r].assessment_result = Some(outcome.result)]
    /\ view' = None
    /\ UNCHANGED store

\* str(submission.submission_id)
str(submission_id) == [t |-> "str", uuid |-> submission_id]

\* mutant: the success branch sets the score and forgets the status
MarkCompletedScoreOnly(submission, assessment_result) ==
    [submission EXCEPT !.overall_score = Some(assessment_result.overall_score)]

\* mutant: the failure branch forgets to set the status
MarkFailedForgotten(submission) == submission

\* lines 133-134 and 231-232: the success branch's assignments before save()
MarkCompleted(submission, assessment_result) ==
    [submission EXCEPT !.overall_score = Some(assessment_result.overall_score),
                       !.status = COMPLETED]

\* lines 158 and 258: the failure branch's assignment before save()
MarkFailed(submission) == [submission EXCEPT !.status = FAILED]

\* lines 163-168 and 263-268: the failure response
FailureResponse(submission, assessment_result) ==
    JsonResponse(
        [success |-> FALSE,
         submission_id |-> str(submission.submission_id),
         error |-> Get(assessment_result, "error", "Assessment failed"),
         message |-> "Submission saved but assessment failed. Please try again."],
        500)

\* lines 131-135 and 156-168: branch on the result; save the Submission
submit_writing_dispatch(r) ==
    /\ req[r].handler = "submit_writing"
    /\ req[r].pc = "dispatch"
    /\ LET assessment_result == Val(req[r].assessment_result)
           submission == Val(req[r].submission)
       IN  IF "success" \notin DOMAIN assessment_result
           THEN /\ req' = [req EXCEPT ![r] = Return(r, ExceptionResponse("KeyError: success"))]
                /\ UNCHANGED Submission
           ELSE IF assessment_result.success
           THEN IF "overall_score" \notin DOMAIN assessment_result
                THEN /\ req' = [req EXCEPT ![r] =
                                   Return(r, ExceptionResponse("KeyError: overall_score"))]
                     /\ UNCHANGED Submission
                ELSE LET saved == MarkCompleted(submission, assessment_result)
                     IN  /\ Submission' = Save(Submission, saved.submission_id, saved)
                         /\ req' = [req EXCEPT ![r].pc = "result",
                                               ![r].submission = Some(saved)]
           ELSE LET saved == MarkFailed(submission)
                IN  /\ Submission' = Save(Submission, saved.submission_id, saved)
                    /\ req' = [req EXCEPT ![r] =
                           [Return(r, FailureResponse(saved, assessment_result))
                            EXCEPT !.submission = Some(saved)]]
    /\ view' = None
    /\ UNCHANGED <<WritingSubmission, ListeningSubmission, AssessmentResult, calls>>

\* lines 138-155: AssessmentResult.objects.create, then the success response
WritingResultKeys ==
    <<"grammar_score", "vocabulary_score", "coherence_score", "fluency_score",
      "feedback_summary", "suggestions">>

\* mutant: grammar and vocabulary scores swapped
WritingResultCreateSwapped(submission, a) ==
    [submission |-> submission.submission_id,
     pronunciation_score |-> None,
     grammar_score |-> a.vocabulary_score,
     vocabulary_score |-> a.grammar_score,
     coherence_score |-> a.coherence_score,
     fluency_score |-> a.fluency_score,
     feedback_summary |-> a.feedback_summary,
     suggestions |-> a.suggestions]

WritingResultCreate(submission, a) ==
    [submission |-> submission.submission_id,
     pronunciation_score |-> None,
     grammar_score |-> a.grammar_score,
     vocabulary_score |-> a.vocabulary_score,
     coherence_score |-> a.coherence_score,
     fluency_score |-> a.fluency_score,
     feedback_summary |-> a.feedback_summary,
     suggestions |-> a.suggestions]

submit_writing_result(r) ==
    /\ req[r].handler = "submit_writing"
    /\ req[r].pc = "result"
    /\ LET assessment_result == Val(req[r].assessment_result)
           submission == Val(req[r].submission)
           missing == FirstMissing(assessment_result, WritingResultKeys)
       IN  IF missing # None
           THEN /\ req' = [req EXCEPT ![r] = Return(r, ExceptionResponse(Val(missing)))]
                /\ UNCHANGED AssessmentResult
           ELSE /\ AssessmentResult' = Append(AssessmentResult,
                        WritingResultCreate(submission, assessment_result))
                /\ req' = [req EXCEPT ![r] = Return(r, JsonResponse(
                        [success |-> TRUE,
                         submission_id |-> str(submission.submission_id),
                         score |-> submission.overall_score,
                         message |-> "Writing submitted and assessed successfully"],
                        200))]
    /\ view' = None
    /\ UNCHANGED <<Submission, WritingSubmission, ListeningSubmission, calls>>

(***************************************************************************)
(* submit_listening                                                        *)
(***************************************************************************)
\* lines 181-194: parse and validate the body, create the Submission
submit_listening_intake(r, user, body) ==
    /\ Arrives(r)
    /\ LET me == [req[r] EXCEPT !.handler = "submit_listening", !.user = user,
                                !.body = body]
           audio_url == Get(body.data, "audio_url", Str(<<>>))
       IN  IF ~body.parses
           THEN /\ req' = [req EXCEPT ![r] = [me EXCEPT !.pc = "done",
                              !.response = Some(ExceptionResponse("JSONDecodeError"))]]
                /\ UNCHANGED Submission
           ELSE IF ~Truthy(audio_url)
           THEN /\ req' = [req EXCEPT ![r] = [me EXCEPT !.pc = "done",
                              !.response = Some(JsonResponse(
                                  [error |-> "Audio URL is required"], 400))]]
                /\ UNCHANGED Submission
           ELSE LET submission == SubmissionCreate(user, LISTENING)
                IN  /\ Submission' = Append(Submission, submission)
                    /\ req' = [req EXCEPT ![r] = [me EXCEPT !.pc = "detail",
                                  !.submission = Some(submission)]]
    /\ view' = None
    /\ UNCHANGED <<WritingSubmission, ListeningSubmission, AssessmentResult, calls>>

\* lines 197-202: ListeningSubmission.objects.create, without a transcription
ListeningSubmissionCreate(submission, topic, audio_url, duration) ==
    [id |-> Len(ListeningSubmission) + 1,
     submission |-> submission.submission_id, topic |-> topic,
     audio_file_url |-> audio_url, duration_seconds |-> duration,
     transcription |-> None]

submit_listening_detail(r) ==
    /\ req[r].handler = "submit_listening"
    /\ req[r].pc = "detail"
    /\ LET data == req[r].body.data
           listening_detail ==
               ListeningSubmissionCreate(Val(req[r].submission),
                   Get(data, "topic", Str(<<>>)),
                   Get(data, "audio_url", Str(<<>>)),
                   Get(data, "duration_seconds", Num(0)))
       IN  /\ ListeningSubmission' = Append(ListeningSubmission, listening_detail)
           /\ req' = [req EXCEPT ![r].pc = "assess",
                                 ![r].listening_detail = Some(listening_detail)]
    /\ view' = None
    /\ UNCHANGED <<Submission, WritingSubmission, AssessmentResult, calls>>

\* lines 209-220: the file path handed to assess_speaking
MEDIA_ROOT == <<"MEDIA_ROOT", "/">>

startswith(url, prefix) == Len(url) >= 1 /\ url[1] = prefix

audio_file_path(audio_url) ==
    IF startswith(audio_url, "http://") \/ startswith(audio_url, "https://")
    THEN audio_url
    ELSE IF ~startswith(audio_url, "/")
            /\ ~(Len(audio_url) >= 2 /\ audio_url[2] = ":\\")
         THEN MEDIA_ROOT \o audio_url
         ELSE audio_url

\* lines 209-223: compute the path (AttributeError when audio_url is no
\* string), then assess_speaking(topic, audio_file_path, duration) returns or
\* raises
submit_listening_assess(r, outcome) ==
    /\ req[r].handler = "submit_listening"
    /\ req[r].pc = "assess"
    /\ LET data == req[r].body.data
           topic == Get(data, "topic", Str(<<>>))
           audio_url == Get(data, "audio_url", Str(<<>>))
           duration == Get(data, "duration_seconds", Num(0))
       IN  IF audio_url.t # "str"
           THEN /\ req' = [req EXCEPT ![r] =
                              Return(r, ExceptionResponse("AttributeError: startswith"))]
                /\ UNCHANGED calls
           ELSE /\ calls' = Append(calls, [fn |-> "assess_speaking", by |-> r,
                        args |-> <<topic, audio_file_path(audio_url.s), duration>>])
                /\ IF outcome.raised
                   THEN req' = [req EXCEPT ![r] =
                                   Return(r, ExceptionResponse("assess_speaking raised"))]
                   ELSE req' = [req EXCEPT ![r].pc = "dispatch",
                                           ![r].assessment_result = Some(outcome.result)]
    /\ view' = None
    /\ UNCHANGED store

\* lines 225-228 and 256-268: branch on the result; on success save the
\* transcription, otherwise save the Submission as FAILED
submit_listening_transcription(r) ==
    /\ req[r].handler = "submit_listening"
    /\ req[r].pc = "dispatch"
    /\ LET assessment_result == Val(req[r].assessment_result)
           submission == Val(req[r].submission)
           listening_detail == Val(req[r].listening_detail)
       IN  IF "success" \notin DOMAIN assessment_result
           THEN /\ req' = [req EXCEPT ![r] = Return(r, ExceptionResponse("KeyError: success"))]
                /\ UNCHANGED <<Submission, ListeningSubmission>>
           ELSE IF assessment_result.success
           THEN LET saved == [listening_detail EXCEPT !.transcription =
                                 Some(Get(assessment_result, "transcription", ""))]
                IN  /\ ListeningSubmission' = Save(ListeningSubmission, saved.id, saved)
                    /\ req' = [req EXCEPT ![r].pc = "score",
                                          ![r].listening_detail = Some(saved)]
                    /\ UNCHANGED Submission
           ELSE LET saved == MarkFailed(submission)
                IN  /\ Submission' = Save(Submission, saved.submission_id, saved)
                    /\ req' = [req EXCEPT ![r] =
                           [Return(r, FailureResponse(saved, assessment_result))
                            EXCEPT !.submission = Some(saved)]]
                    /\ UNCHANGED ListeningSubmission
    /\ view' = None
    /\ UNCHANGED <<WritingSubmission, AssessmentResult, calls>>

\* lines 231-233: set overall_score and COMPLETED, save the Submission
submit_listening_score(r) ==
    /\ req[r].handler = "submit_listening"
    /\ req[r].pc = "score"
    /\ LET assessment_result == Val(req[r].assessment_result)
           submission == Val(req[r].submission)
       IN  IF "overall_score" \notin DOMAIN assessment_result
           THEN /\ req' = [req EXCEPT ![r] =
                              Return(r, ExceptionResponse("KeyError: overall_score"))]
                /\ UNCHANGED Submission
           ELSE LET saved == MarkCompleted(submission, assessment_result)
                IN  /\ Submission' = Save(Submission, saved.submission_id, saved)
                    /\ req' = [req EXCEPT ![r].pc = "result",
                                          ![r].submission = Some(saved)]
    /\ view' = None
    /\ UNCHANGED <<WritingSubmission, ListeningSubmission, AssessmentResult, calls>>

\* lines 236-255: AssessmentResult.objects.create, then the success response
ListeningResultKeys ==
    <<"pronunciation_score", "fluency_score", "vocabulary_score", "grammar_score",
      "coherence_score", "feedback_summary", "suggestions">>

ListeningResultCreate(submission, a) ==
    [submission |-> submission.submission_id,
     pronunciation_score |-> Some(a.pronunciation_score),
     grammar_score |-> a.grammar_score,
     vocabulary_score |-> a.vocabulary_score,
     coherence_score |-> a.coherence_score,
     fluency_score |-> a.fluency_score,
     feedback_summary |-> a.feedback_summary,
     suggestions |-> a.suggestions]

submit_listening_result(r) ==
    /\ req[r].handler = "submit_listening"
    /\ req[r].pc = "result"
    /\ LET assessment_result == Val(req[r].assessment_result)
           submission == Val(req[r].submission)
           missing == FirstMissing(assessment_result, ListeningResultKeys)
       IN  IF missing # None
           THEN /\ req' = [req EXCEPT ![r] = Return(r, ExceptionResponse(Val(missing)))]
                /\ UNCHANGED AssessmentResult
           ELSE /\ AssessmentResult' = Append(AssessmentResult,
                        ListeningResultCreate(submission, assessment_result))
                /\ req' = [req EXCEPT ![r] = Return(r, JsonResponse(
                        [success |-> TRUE,
                         submission_id |-> str(submission.submission_id),
                         score |-> submission.overall_score,
                         transcription |-> Get(assessment_result, "transcription", ""),
                         message |-> "Audio submitted and assessed successfully"],
                        200))]
    /\ view' = None
    /\ UNCHANGED <<Submission, WritingSubmission, ListeningSubmission, calls>>

(***************************************************************************)
(* The read views.                                                         *)
(***************************************************************************)
\* QuerySet.filter(...) over a table, in primary-key order
RECURSIVE Filter(_, _)
Filter(table, keep) ==
    IF table = <<>> THEN <<>>
    ELSE LET rest == Filter(Tail(table), keep)
         IN  IF keep[Head(table)] THEN <<Head(table)>> \o rest ELSE rest

\* rows of table whose submission is submission_id
Of(table, submission_id) ==
    Filter(table, [row \in {table[i] : i \in DOMAIN table} |->
                      row.submission = submission_id])

\* QuerySet.first()
First(rows) == IF rows = <<>> THEN None ELSE Some(Head(rows))

\* lines 45-57: the requester's submissions with their related rows
dashboard(user) ==
    /\ LET mine == Filter(Submission,
                       [row \in {Submission[i] : i \in DOMAIN Submission} |->
                           row.user_id = user])
       IN  view' = Some([view |-> "dashboard", user |-> user, status |-> 200,
                submissions |-> [i \in DOMAIN mine |->
                    [submission |-> mine[i],
                     assessment_result |-> First(Of(AssessmentResult, mine[i].submission_id)),
                     writing_details |-> Of(WritingSubmission, mine[i].submission_id),
                     listening_details |-> Of(ListeningSubmission, mine[i].submission_id)]]])
    /\ UNCHANGED <<store, req, calls>>

\* mutant: the query filters on submission_id alone
get_object_any_user(user, submission_id) ==
    Filter(Submission,
           [row \in {Submission[i] : i \in DOMAIN Submission} |->
               row.submission_id = submission_id])

\* lines 278-282: the query of get_object_or_404
get_object(user, submission_id) ==
    Filter(Submission,
           [row \in {Submission[i] : i \in DOMAIN Submission} |->
               row.submission_id = submission_id /\ row.user_id = user])

\* lines 276-296: get_object_or_404 on (submission_id, user_id); reading
\* submission.assessment_result of a Submission without one raises
\* RelatedObjectDoesNotExist, which no handler catches (500).  The view
\* writes nothing; its queries (the Submission with its result, then the
\* detail row) are taken as one read of the store.
submission_detail(user, submission_id) ==
    /\ LET found == get_object(user, submission_id)
           me == [view |-> "submission_detail", user |-> user,
                  submission_id |-> submission_id]
       IN  IF found = <<>>
           THEN view' = Some(me @@ [status |-> 404])
           ELSE LET submission == Head(found)
                    details ==
                        IF submission.submission_type = WRITING
                        THEN First(Of(WritingSubmission, submission.submission_id))
                        ELSE First(Of(ListeningSubmission, submission.submission_id))
                    result == First(Of(AssessmentResult, submission.submission_id))
                IN  IF result = None
                    THEN view' = Some(me @@ [status |-> 500])
                    ELSE view' = Some(me @@ [status |-> 200,
                                     submission |-> submission,
                                     details |-> details,
                                     result |-> Val(result)])
    /\ UNCHANGED <<store, req, calls>>

(***************************************************************************)
(* Specifications.                                                         *)
(*                                                                         *)
(* SpecRequest: one submit request, over every body and every outcome of   *)
(* the collaborator.                                                       *)
(* Spec: MaxReq submit requests of one user, handled concurrently.         *)
(* SpecViews: MaxReq submit requests of several users, one in flight at a  *)
(* time, with dashboard and submission_detail reads at any moment.         *)
(***************************************************************************)
\* the inputs of Spec and SpecViews
SomeWritingBodies ==
    { Json([topic |-> Topic]),
      Json([topic |-> Topic, text_body |-> Str(<<>>)]),
      WritingBody(<<"a", " ", "b", " ", " ", "c">>) }

SomeListeningBodies ==
    { Json([topic |-> Topic, duration_seconds |-> Num(30)]),
      Json([topic |-> Topic, audio_url |-> Str(<<>>), duration_seconds |-> Num(30)]),
      Json([topic |-> Topic, audio_url |-> RelativeUrl, duration_seconds |-> Num(30)]) }

SomeWritingOutcomes ==
    { Raises, Returns(WritingSuccess),
      Returns(Without(WritingSuccess, "suggestions")), Returns(AssessFailure) }

SomeSpeakingOutcomes ==
    { Raises, Returns(SpeakingSuccess),
      Returns(Without(SpeakingSuccess, "overall_score")), Returns(AssessFailure) }

\* ids a client may ask for: every id the store can hold
SubmissionIds == 1..MaxReq

\* no submit request is in flight
Quiet == \A r \in Requests : req[r].pc \in {"start", "done"}

NextRequest ==
    \/ \E user \in Users, body \in WritingBodies \cup WordCountBodies :
           submit_writing_intake(1, user, body)
    \/ submit_writing_detail(1)
    \/ \E outcome \in WritingOutcomes : submit_writing_assess(1, outcome)
    \/ submit_writing_dispatch(1)
    \/ submit_writing_result(1)
    \/ \E user \in Users, body \in ListeningBodies :
           submit_listening_intake(1, user, body)
    \/ submit_listening_detail(1)
    \/ \E outcome \in SpeakingOutcomes : submit_listening_assess(1, outcome)
    \/ submit_listening_transcription(1)
    \/ submit_listening_score(1)
    \/ submit_listening_result(1)

SpecRequest == Init /\ [][NextRequest]_vars

Next ==
    \/ \E r \in Requests, body \in SomeWritingBodies :
           submit_writing_intake(r, "alice", body)
    \/ \E r \in Requests : submit_writing_detail(r)
    \/ \E r \in Requests, outcome \in SomeWritingOutcomes :
           submit_writing_assess(r, outcome)
    \/ \E r \in Requests : submit_writing_dispatch(r)
    \/ \E r \in Requests : submit_writing_result(r)
    \/ \E r \in Requests, body \in SomeListeningBodies :
           submit_listening_intake(r, "alice", body)
    \/ \E r \in Requests : submit_listening_detail(r)
    \/ \E r \in Requests, outcome \in SomeSpeakingOutcomes :
           submit_listening_assess(r, outcome)
    \/ \E r \in Requests : submit_listening_transcription(r)
    \/ \E r \in Requests : submit_listening_score(r)
    \/ \E r \in Requests : submit_listening_result(r)

Spec == Init /\ [][Next]_vars

NextViews ==
    \/ /\ Quiet
       /\ \E r \in Requests, user \in Users, body \in SomeWritingBodies :
              submit_writing_intake(r, user, body)
    \/ \E r \in Requests : submit_writing_detail(r)
    \/ \E r \in Requests, outcome \in SomeWritingOutcomes :
           submit_writing_assess(r, outcome)
    \/ \E r \in Requests : submit_writing_dispatch(r)
    \/ \E r \in Requests : submit_writing_result(r)
    \/ /\ Quiet
       /\ \E r \in Requests, user \in Users, body \in SomeListeningBodies :
              submit_listening_intake(r, user, body)
    \/ \E r \in Requests : submit_listening_detail(r)
    \/ \E r \in Requests, outcome \in SomeSpeakingOutcomes :
           submit_listening_assess(r, outcome)
    \/ \E r \in Requests : submit_listening_transcription(r)
    \/ \E r \in Requests : submit_listening_score(r)
    \/ \E r \in Requests : submit_listening_result(r)
    \/ \E user \in Users : dashboard(user)
    \/ \E user \in Users, submission_id \in SubmissionIds :
           submission_detail(user, submission_id)

SpecViews == Init /\ [][NextViews]_vars
(***************************************************************************)
(* Properties.                                                             *)
(***************************************************************************)
Done(r) == req[r].pc = "done"

\* request r created a Submission
Created(r) == req[r].submission # None

\* the stored row of the Submission request r created
Stored(r) == Submission[Val(req[r].submission).submission_id]

\* number of rows of table that belong to submission_id
Count(table, submission_id) ==
    Cardinality({i \in DOMAIN table : table[i].submission = submission_id})

\* the content field a handler requires
ContentField(handler) ==
    IF handler = "submit_writing" THEN "text_body" ELSE "audio_url"

MissingOrEmpty(q) ==
    /\ q.body.parses
    /\ \/ ContentField(q.handler) \notin DOMAIN q.body.data
       \/ q.body.data[ContentField(q.handler)] = Str(<<>>)

\* the collaborator returned d: success=true with every key of its contract
ReturnedSuccess(q, keys) ==
    /\ q.assessment_result # None
    /\ LET d == Val(q.assessment_result)
       IN  /\ {"success", "overall_score"} \cup keys \subseteq DOMAIN d
           /\ d.success

\* the collaborator returned success=false
ReturnedFailure(q) ==
    /\ q.assessment_result # None
    /\ LET d == Val(q.assessment_result)
       IN  "success" \in DOMAIN d /\ ~d.success

\* C1: once a submit request that created a Submission has returned its
\* response, the stored status of that Submission is COMPLETED or FAILED,
\* whatever the collaborator did.
C1_TerminalAfterRequest ==
    \A r \in Requests :
        Done(r) /\ Created(r) => Stored(r).status \in {COMPLETED, FAILED}

\* C2: a submit request whose required content field is missing or empty
\* returns 400 in the step it arrives, and that step changes no table and
\* calls no collaborator; the request never owns a Submission and never
\* calls the collaborator.
C2_Rejects(r) ==
    req[r].pc = "start" /\ req'[r].pc # "start" /\ MissingOrEmpty(req'[r])
    => /\ req'[r].pc = "done"
       /\ Val(req'[r].response).status = 400
       /\ store' = store
       /\ calls' = calls

C2_NoTrace(r) ==
    req[r].pc # "start" /\ MissingOrEmpty(req[r])
    => /\ Done(r)
       /\ ~Created(r)
       /\ \A i \in DOMAIN calls : calls[i].by # r

C2_MissingContentRejected ==
    /\ [](\A r \in Requests : C2_NoTrace(r))
    /\ [][\A r \in Requests : C2_Rejects(r)]_vars

\* a request was rejected with 400 while the store already held rows
C2_Witness ==
    \E r \in Requests :
        /\ Done(r) /\ MissingOrEmpty(req[r])
        /\ Val(req[r].response).status = 400
        /\ Len(Submission) > 0 /\ Len(AssessmentResult) > 0

\* number of maximal runs of non-whitespace characters of s
Runs(s) ==
    Cardinality({i \in 1..Len(s) :
        ~IsSpace(s[i]) /\ (i = 1 \/ IsSpace(s[i - 1]))})

\* C3: when assess_writing returned success=true, the finished submit_writing
\* request leaves its Submission WRITING, COMPLETED, with the assessor's
\* overall_score; exactly one WritingSubmission with the submitted topic,
\* text and word count; exactly one AssessmentResult with the assessor's
\* scores, summary and suggestions; and a success response with that
\* Submission's id and score.
C3_WritingSuccess ==
    \A r \in Requests :
        /\ req[r].handler = "submit_writing"
        /\ Done(r)
        /\ ReturnedSuccess(req[r], {"grammar_score", "vocabulary_score",
               "coherence_score", "fluency_score", "feedback_summary", "suggestions"})
        => LET d == Val(req[r].assessment_result)
               sub == Stored(r)
               id == sub.submission_id
               details == Of(WritingSubmission, id)
               results == Of(AssessmentResult, id)
               resp == Val(req[r].response)
           IN  /\ sub.submission_type = WRITING
               /\ sub.status = COMPLETED
               /\ sub.overall_score = Some(d.overall_score)
               /\ Len(details) = 1
               /\ details[1].topic = Get(req[r].body.data, "topic", Str(<<>>))
               /\ details[1].text_body = req[r].body.data.text_body
               /\ details[1].word_count = Runs(req[r].body.data.text_body.s)
               /\ Len(results) = 1
               /\ results[1].grammar_score = d.grammar_score
               /\ results[1].vocabulary_score = d.vocabulary_score
               /\ results[1].coherence_score = d.coherence_score
               /\ results[1].fluency_score = d.fluency_score
               /\ results[1].feedback_summary = d.feedback_summary
               /\ results[1].suggestions = d.suggestions
               /\ resp.status = 200
               /\ resp.json.success
               /\ resp.json.submission_id = str(id)
               /\ resp.json.score = sub.overall_score

\* a submit_writing request finished after assess_writing returned success
C3_Witness ==
    \E r \in Requests :
        /\ req[r].handler = "submit_writing"
        /\ Done(r)
        /\ req[r].assessment_result = Some(WritingSuccess)
        /\ Val(req[r].response).status = 200

\* C4: when the collaborator returned success=false, the finished request
\* leaves its Submission FAILED with a null overall_score, its detail row in
\* place and no AssessmentResult, and answers 500 with the submission_id and
\* the error.
C4_AssessmentFailure ==
    \A r \in Requests :
        Done(r) /\ ReturnedFailure(req[r])
        => LET d == Val(req[r].assessment_result)
               sub == Stored(r)
               id == sub.submission_id
               resp == Val(req[r].response)
           IN  /\ Created(r)
               /\ sub.status = FAILED
               /\ sub.overall_score = None
               /\ Count(AssessmentResult, id) = 0
               /\ IF req[r].handler = "submit_writing"
                  THEN Count(WritingSubmission, id) = 1
                  ELSE Count(ListeningSubmission, id) = 1
               /\ resp.status = 500
               /\ resp.json.submission_id = str(id)
               /\ "error" \in DOMAIN resp.json
               /\ IF "error" \in DOMAIN d THEN resp.json.error = d.error
                  ELSE resp.json.error = "Assessment failed"

\* a submit_listening request finished after assess_speaking returned failure
C4_Witness ==
    \E r \in Requests :
        /\ req[r].handler = "submit_listening"
        /\ Done(r)
        /\ req[r].assessment_result = Some(AssessFailure)
        /\ Val(req[r].response).status = 500
        /\ Stored(r).status = FAILED

\* C7: the word_count stored by submit_writing is the number of maximal runs
\* of non-whitespace characters of text_body; "a b  c" has 3.
C7_WordCount ==
    /\ \A i \in DOMAIN WritingSubmission :
           WritingSubmission[i].word_count = Runs(WritingSubmission[i].text_body.s)
    /\ \A i \in DOMAIN WritingSubmission :
           WritingSubmission[i].text_body.s = <<"a", " ", "b", " ", " ", "c">>
           => WritingSubmission[i].word_count = 3

\* "a b  c", with its doubled space, was stored with word_count 3
C7_Witness ==
    \E i \in DOMAIN WritingSubmission :
        /\ WritingSubmission[i].text_body.s = <<"a", " ", "b", " ", " ", "c">>
        /\ WritingSubmission[i].word_count = 3

\* C9: at the end of every submit_listening request that created its detail
\* row, the stored transcription is non-null exactly when the Submission is
\* COMPLETED, and then it is the transcription assess_speaking returned ("" if
\* none), which is also the transcription of the response.
C9_Transcription ==
    \A r \in Requests :
        /\ req[r].handler = "submit_listening"
        /\ Done(r)
        /\ req[r].listening_detail # None
        => LET row == ListeningSubmission[Val(req[r].listening_detail).id]
               resp == Val(req[r].response)
           IN  /\ row.transcription # None <=> Stored(r).status = COMPLETED
               /\ Stored(r).status = COMPLETED
                  => /\ row.transcription =
                          Some(Get(Val(req[r].assessment_result), "transcription", ""))
                     /\ "transcription" \in DOMAIN resp.json
                     /\ resp.json.transcription = Val(row.transcription)

\* C5: submission_detail answers 404 exactly when no Submission has the id
\* asked for or the Submission with that id belongs to another user; what it
\* returns is the stored Submission of the requester; a dashboard lists
\* exactly the stored Submissions of its user; and no read changes a table.
C5_Detail(v) ==
    LET same == {i \in DOMAIN Submission :
                    Submission[i].submission_id = v.submission_id}
    IN  /\ v.status = 404
           <=> \/ same = {}
               \/ \E i \in same : Submission[i].user_id # v.user
        /\ v.status = 200
           => /\ v.submission.user_id = v.user
              /\ \E i \in same : Submission[i] = v.submission

C5_Dashboard(v) ==
    /\ \A k \in DOMAIN v.submissions :
           /\ v.submissions[k].submission.user_id = v.user
           /\ \E i \in DOMAIN Submission :
                  Submission[i] = v.submissions[k].submission
    /\ Len(v.submissions) =
           Cardinality({i \in DOMAIN Submission : Submission[i].user_id = v.user})

C5_Reads ==
    view # None
    => IF Val(view).view = "submission_detail"
       THEN C5_Detail(Val(view))
       ELSE C5_Dashboard(Val(view))

C5_OwnerOnlyReads ==
    /\ []C5_Reads
    /\ [][view' # None => store' = store]_vars

\* a user asked for another user's existing Submission and got 404, while
\* that user has a Submission of their own
C5_Witness ==
    /\ view # None
    /\ Val(view).view = "submission_detail"
    /\ Val(view).status = 404
    /\ \E i \in DOMAIN Submission :
           /\ Submission[i].submission_id = Val(view).submission_id
           /\ Submission[i].user_id # Val(view).user
    /\ \E i \in DOMAIN Submission : Submission[i].user_id = Val(view).user

PastDetail(submission_id) ==
    \E r \in Requests :
        /\ req[r].submission # None
        /\ Val(req[r].submission).submission_id = submission_id
        /\ req[r].pc # "detail"

StepOfCreator(submission_id) ==
    \E r \in Requests :
        /\ req[r].submission # None
        /\ Val(req[r].submission).submission_id = submission_id
        /\ req[r].pc # "done"
        /\ req'[r] # req[r]

\* C8: a Submission is created by an intake step, in status IN_PROGRESS;
\* its status and overall_score change only in a step of the request that
\* created it, from IN_PROGRESS to COMPLETED or FAILED, hence at most once;
\* no row of any table is ever deleted.
C8_Step ==
    /\ \A i \in DOMAIN Submission' \ DOMAIN Submission :
           /\ Submission'[i].status = IN_PROGRESS
           /\ Submission'[i].overall_score = None
           /\ \E r \in Requests :
                  /\ req[r].pc = "start"
                  /\ req'[r].submission = Some(Submission'[i])
    /\ \A i \in DOMAIN Submission :
           /\ i \in DOMAIN Submission'
           /\ Submission'[i].submission_id = Submission[i].submission_id
           /\ \/ Submission'[i].status # Submission[i].status
              \/ Submission'[i].overall_score # Submission[i].overall_score
              => /\ Submission[i].status = IN_PROGRESS
                 /\ Submission'[i].status \in {COMPLETED, FAILED}
                 /\ StepOfCreator(Submission[i].submission_id)
    /\ DOMAIN WritingSubmission \subseteq DOMAIN WritingSubmission'
    /\ DOMAIN ListeningSubmission \subseteq DOMAIN ListeningSubmission'
    /\ DOMAIN AssessmentResult \subseteq DOMAIN AssessmentResult'
    /\ \A i \in DOMAIN AssessmentResult : AssessmentResult'[i] = AssessmentResult[i]

=============================================================================
